---- MODULE Spec2Model ----
(***************************************************************************)
(* Model of devicehive/gateway/binary.py: the binary frame (BinaryMessage), *)
(* the packet buffer (BinaryPacketBuffer) and the receive loop of           *)
(* BinaryProtocol.dataReceived.                                             *)
(*                                                                          *)
(* Bytes are the integers 0..255.  Python sequences are 0-based; At(s, i)   *)
(* reads s[i] at a Python offset so that the PACKET_OFFSET_* constants keep *)
(* their source values.                                                     *)
(***************************************************************************)
EXTENDS Integers, Sequences, FiniteSets, TLC

(***************************************************************************)
(* Program constants.                                                       *)
(***************************************************************************)
Register == 1

PACKET_SIGNATURE == 50627

PACKET_SIGNATURE_HI == 197

PACKET_SIGNATURE_LO == 195

PACKET_OFFSET_SIGN_MSB == 0

PACKET_OFFSET_SIGN_LSB == 1

PACKET_OFFSET_VERSION == 2

PACKET_OFFSET_FLAGS == 3

PACKET_OFFSET_LEN_LSB == 4

PACKET_OFFSET_LEN_MSB == 5

PACKET_OFFSET_INTENT_LSB == 6

PACKET_OFFSET_INTENT_MSB == 7

PACKET_OFFSET_DATA == 8

EMPTY_PACKET_LENGTH == 9

(***************************************************************************)
(* Bounds of the model.                                                     *)
(***************************************************************************)
\* longest buffer the buffer-level specification lets append build
MaxBuf == 11

\* longest chunk of free bytes handed to one append
MaxChunk == 3

\* longest payload of the frames the environment sends
MaxPayload == 1

\* longest run of junk bytes sent ahead of a frame
MaxJunk == 4

\* most frames the device sends on one connection
MaxFrames == 2

\* most commands one registration declares
MaxCommands == 2

\* most connections made to the factory
MaxConnections == 2

\* most elements in an array property of a test object
MaxElements == 2

(***************************************************************************)
(* Python arithmetic and sequence helpers.                                  *)
(***************************************************************************)
\* s[i] with a 0-based offset
At(s, i) == s[i + 1]

\* x & 0xff
LowByte(x) == x % 256

\* (x & 0xff00) >> 8
HighByte(x) == (x \div 256) % 256

\* (x << 8) & 0xff00
ShiftHigh(x) == (x * 256) % 65536

\* (hi << 8) | lo for two bytes
Word16(hi, lo) == LowByte(hi) * 256 + LowByte(lo)

\* s[a:b], clamped as Python slices are
Slice(s, a, b) ==
    LET hi == IF b < Len(s) THEN b ELSE Len(s)
    IN  IF a >= hi THEN <<>> ELSE SubSeq(s, a + 1, hi)

\* the list left by `del s[:n]`
DelFront(s, n) == Slice(s, n, Len(s))

\* sum(s), adding the two halves so that long payloads stay shallow
RECURSIVE Sum(_)
Sum(s) ==
    IF Len(s) = 0 THEN 0
    ELSE IF Len(s) = 1 THEN s[1]
    ELSE LET h == Len(s) \div 2
         IN  Sum(SubSeq(s, 1, h)) + Sum(SubSeq(s, h + 1, Len(s)))

\* whether list.index(x) finds x (otherwise it raises ValueError)
Contains(s, x) == \E i \in 1..Len(s) : s[i] = x

\* list.index(x): 0-based offset of the first x
Index(s, x) == (CHOOSE i \in 1..Len(s) : s[i] = x /\ \A j \in 1..(i - 1) : s[j] # x) - 1

\* all sequences over S of length lo..hi
SeqsOf(S, lo, hi) == UNION { [1..n -> S] : n \in lo..hi }

(***************************************************************************)
(* BinaryMessage: a frame is a record of its five properties.               *)
(***************************************************************************)
BinaryMessage(sign, ver, flags, intent, data) ==
    [signature |-> sign, version |-> ver, flags |-> flags, intent |-> intent, data |-> data]

\* stands for "no message" where Python has None
NoMsg == BinaryMessage(0, 0, 0, 0, <<>>)

\* AbstractBinaryMessage.length
length(m) == Len(m.data)

\* checksum leaving out the high byte of the payload length
checksum_without_length_high(m) ==
    LET s == HighByte(m.signature) + m.signature + m.version + m.flags
             + length(m)
             + HighByte(m.intent) + m.intent
             + Sum(m.data)
    IN  LowByte(255 - LowByte(s))

\* AbstractBinaryMessage.checksum
checksum(m) ==
    LET s == HighByte(m.signature) + m.signature + m.version + m.flags
             + HighByte(length(m)) + length(m)
             + HighByte(m.intent) + m.intent
             + Sum(m.data)
    IN  LowByte(255 - LowByte(s))

\* to_binary writing the intent high byte first
to_binary_intent_swapped(m) ==
    << LowByte(HighByte(m.signature)), LowByte(m.signature),
       LowByte(m.version), LowByte(m.flags),
       LowByte(length(m)), HighByte(length(m)),
       HighByte(m.intent), LowByte(m.intent) >>
    \o m.data \o << checksum(m) >>

\* AbstractBinaryMessage.to_binary
to_binary(m) ==
    << LowByte(HighByte(m.signature)), LowByte(m.signature),
       LowByte(m.version), LowByte(m.flags),
       LowByte(length(m)), HighByte(length(m)),
       LowByte(m.intent), HighByte(m.intent) >>
    \o m.data \o << checksum(m) >>

\* from_binary taking the checksum over all the bytes handed in
from_binary_sum_all(binstr) ==
    LET binstr_len == Len(binstr) IN
    IF binstr_len < EMPTY_PACKET_LENGTH
    THEN [err |-> "IncompletePacketError", msg |-> NoMsg]
    ELSE
    LET signature == Word16(At(binstr, PACKET_OFFSET_SIGN_MSB), At(binstr, PACKET_OFFSET_SIGN_LSB)) IN
    IF signature # PACKET_SIGNATURE
    THEN [err |-> "InvalidSignatureError", msg |-> NoMsg]
    ELSE
    LET version == At(binstr, PACKET_OFFSET_VERSION)
        flags == At(binstr, PACKET_OFFSET_FLAGS)
        payload_len == Word16(At(binstr, PACKET_OFFSET_LEN_MSB), At(binstr, PACKET_OFFSET_LEN_LSB))
    IN
    IF binstr_len < EMPTY_PACKET_LENGTH + payload_len
    THEN [err |-> "InvalidPacketLengthError", msg |-> NoMsg]
    ELSE
    LET intent == Word16(At(binstr, PACKET_OFFSET_INTENT_MSB), At(binstr, PACKET_OFFSET_INTENT_LSB))
        frame_data == Slice(binstr, PACKET_OFFSET_DATA, PACKET_OFFSET_DATA + payload_len)
    IN
    IF 255 # LowByte(Sum(binstr))
    THEN [err |-> "InvalidCRCError", msg |-> NoMsg]
    ELSE [err |-> "", msg |-> BinaryMessage(signature, version, flags, intent, frame_data)]

\* BinaryMessage.from_binary: err is the exception raised, "" when msg is returned
from_binary(binstr) ==
    LET binstr_len == Len(binstr) IN
    IF binstr_len < EMPTY_PACKET_LENGTH
    THEN [err |-> "IncompletePacketError", msg |-> NoMsg]
    ELSE
    LET signature == Word16(At(binstr, PACKET_OFFSET_SIGN_MSB), At(binstr, PACKET_OFFSET_SIGN_LSB)) IN
    IF signature # PACKET_SIGNATURE
    THEN [err |-> "InvalidSignatureError", msg |-> NoMsg]
    ELSE
    LET version == At(binstr, PACKET_OFFSET_VERSION)
        flags == At(binstr, PACKET_OFFSET_FLAGS)
        payload_len == Word16(At(binstr, PACKET_OFFSET_LEN_MSB), At(binstr, PACKET_OFFSET_LEN_LSB))
    IN
    IF binstr_len < EMPTY_PACKET_LENGTH + payload_len
    THEN [err |-> "InvalidPacketLengthError", msg |-> NoMsg]
    ELSE
    LET intent == Word16(At(binstr, PACKET_OFFSET_INTENT_MSB), At(binstr, PACKET_OFFSET_INTENT_LSB))
        frame_data == Slice(binstr, PACKET_OFFSET_DATA, PACKET_OFFSET_DATA + payload_len)
    IN
    IF 255 # LowByte(Sum(Slice(binstr, 0, PACKET_OFFSET_DATA + payload_len + 1)))
    THEN [err |-> "InvalidCRCError", msg |-> NoMsg]
    ELSE [err |-> "", msg |-> BinaryMessage(signature, version, flags, intent, frame_data)]

(***************************************************************************)
(* BinaryPacketBuffer.                                                      *)
(***************************************************************************)
\* _skip_to_next_packet dropping a 0xC5 that is the last byte along with the junk
RECURSIVE skip_dropping_lone_hi(_)
skip_dropping_lone_hi(d) ==
    LET data_len == Len(d) IN
    IF data_len > 1
    THEN IF At(d, 0) = PACKET_SIGNATURE_HI /\ At(d, 1) = PACKET_SIGNATURE_LO
         THEN d
         ELSE IF ~Contains(d, PACKET_SIGNATURE_HI)
         THEN <<>>
         ELSE LET idx == Index(d, PACKET_SIGNATURE_HI) IN
              IF idx = data_len - 1
              THEN DelFront(d, idx + 1)
              ELSE IF idx < data_len - 2
              THEN IF At(d, idx + 1) = PACKET_SIGNATURE_LO
                   THEN DelFront(d, idx)
                   ELSE skip_dropping_lone_hi(DelFront(d, idx + 1))
              ELSE d
    ELSE IF data_len = 1 /\ At(d, 0) # PACKET_SIGNATURE_HI
    THEN <<>>
    ELSE d

\* one call of _skip_to_next_packet that deletes the junk before a 0xC5 that is no
\* signature, and not that 0xC5, before it calls itself
skip_call_keeping_hi(d) ==
    LET data_len == Len(d) IN
    IF data_len > 1
    THEN IF At(d, 0) = PACKET_SIGNATURE_HI /\ At(d, 1) = PACKET_SIGNATURE_LO
         THEN [data |-> d, again |-> FALSE]
         ELSE IF ~Contains(d, PACKET_SIGNATURE_HI)
         THEN [data |-> <<>>, again |-> FALSE]
         ELSE LET idx == Index(d, PACKET_SIGNATURE_HI) IN
              IF idx = data_len - 1
              THEN [data |-> DelFront(d, idx), again |-> FALSE]
              ELSE IF idx < data_len - 2
              THEN IF At(d, idx + 1) = PACKET_SIGNATURE_LO
                   THEN [data |-> DelFront(d, idx), again |-> FALSE]
                   ELSE [data |-> DelFront(d, idx), again |-> TRUE]
              ELSE [data |-> d, again |-> FALSE]
    ELSE IF data_len = 1 /\ At(d, 0) # PACKET_SIGNATURE_HI
    THEN [data |-> <<>>, again |-> FALSE]
    ELSE [data |-> d, again |-> FALSE]

\* one call of BinaryPacketBuffer._skip_to_next_packet up to its return or to the
\* call it makes of itself: the _data it leaves, and whether it calls itself
skip_call(d) ==
    LET data_len == Len(d) IN
    IF data_len > 1
    THEN IF At(d, 0) = PACKET_SIGNATURE_HI /\ At(d, 1) = PACKET_SIGNATURE_LO
         THEN [data |-> d, again |-> FALSE]
         ELSE IF ~Contains(d, PACKET_SIGNATURE_HI)
         THEN [data |-> <<>>, again |-> FALSE]
         ELSE LET idx == Index(d, PACKET_SIGNATURE_HI) IN
              IF idx = data_len - 1
              THEN [data |-> DelFront(d, idx), again |-> FALSE]
              ELSE IF idx < data_len - 2
              THEN IF At(d, idx + 1) = PACKET_SIGNATURE_LO
                   THEN [data |-> DelFront(d, idx), again |-> FALSE]
                   ELSE [data |-> DelFront(d, idx + 1), again |-> TRUE]
              ELSE [data |-> d, again |-> FALSE]
    ELSE IF data_len = 1 /\ At(d, 0) # PACKET_SIGNATURE_HI
    THEN [data |-> <<>>, again |-> FALSE]
    ELSE [data |-> d, again |-> FALSE]

\* _skip_to_next_packet deleting the 0xC5 of the signature it found along with the
\* junk before it
RECURSIVE skip_past_signature_hi(_)
skip_past_signature_hi(d) ==
    LET data_len == Len(d) IN
    IF data_len > 1
    THEN IF At(d, 0) = PACKET_SIGNATURE_HI /\ At(d, 1) = PACKET_SIGNATURE_LO
         THEN d
         ELSE IF ~Contains(d, PACKET_SIGNATURE_HI)
         THEN <<>>
         ELSE LET idx == Index(d, PACKET_SIGNATURE_HI) IN
              IF idx = data_len - 1
              THEN DelFront(d, idx)
              ELSE IF idx < data_len - 2
              THEN IF At(d, idx + 1) = PACKET_SIGNATURE_LO
                   THEN DelFront(d, idx + 1)
                   ELSE skip_past_signature_hi(DelFront(d, idx + 1))
              ELSE d
    ELSE IF data_len = 1 /\ At(d, 0) # PACKET_SIGNATURE_HI
    THEN <<>>
    ELSE d

\* BinaryPacketBuffer._skip_to_next_packet, as a function of _data
RECURSIVE skip_to_next_packet(_)
skip_to_next_packet(d) ==
    LET data_len == Len(d) IN
    IF data_len > 1
    THEN IF At(d, 0) = PACKET_SIGNATURE_HI /\ At(d, 1) = PACKET_SIGNATURE_LO
         THEN d
         ELSE IF ~Contains(d, PACKET_SIGNATURE_HI)
         THEN <<>>
         ELSE LET idx == Index(d, PACKET_SIGNATURE_HI) IN
              IF idx = data_len - 1
              THEN DelFront(d, idx)
              ELSE IF idx < data_len - 2
              THEN IF At(d, idx + 1) = PACKET_SIGNATURE_LO
                   THEN DelFront(d, idx)
                   ELSE skip_to_next_packet(DelFront(d, idx + 1))
              ELSE d
    ELSE IF data_len = 1 /\ At(d, 0) # PACKET_SIGNATURE_HI
    THEN <<>>
    ELSE d

\* BinaryPacketBuffer.append: _data after append(value)
append_data(d, value) == skip_to_next_packet(d \o value)

\* has_packet answering true as soon as a header and a checksum byte are there
has_packet_header_only(d) ==
    LET data_len == Len(d) IN
    IF data_len < EMPTY_PACKET_LENGTH THEN FALSE ELSE TRUE

\* has_packet reading only the low byte of the payload length
has_packet_low_byte_only(d) ==
    LET data_len == Len(d) IN
    IF data_len < EMPTY_PACKET_LENGTH
    THEN FALSE
    ELSE LET payload_len == LowByte(At(d, PACKET_OFFSET_LEN_LSB))
         IN  IF data_len < payload_len + EMPTY_PACKET_LENGTH THEN FALSE ELSE TRUE

\* BinaryPacketBuffer.has_packet
has_packet(d) ==
    LET data_len == Len(d) IN
    IF data_len < EMPTY_PACKET_LENGTH
    THEN FALSE
    ELSE LET payload_len == ShiftHigh(At(d, PACKET_OFFSET_LEN_MSB))
                            + LowByte(At(d, PACKET_OFFSET_LEN_LSB))
         IN  IF data_len < payload_len + EMPTY_PACKET_LENGTH THEN FALSE ELSE TRUE

\* pop_packet deleting one byte more than the frame
pop_data_one_more(d) ==
    skip_to_next_packet(
        DelFront(d, PACKET_OFFSET_DATA + 2
                    + (ShiftHigh(At(d, PACKET_OFFSET_LEN_MSB))
                       + LowByte(At(d, PACKET_OFFSET_LEN_LSB)))))

\* BinaryPacketBuffer.pop_packet: _data after a pop that returned a message
pop_data(d) ==
    skip_to_next_packet(
        DelFront(d, PACKET_OFFSET_DATA + 1
                    + (ShiftHigh(At(d, PACKET_OFFSET_LEN_MSB))
                       + LowByte(At(d, PACKET_OFFSET_LEN_LSB)))))

\* BinaryPacketBuffer.pop_packet on _data = d: the _data it leaves, the exception it
\* raises (err), whether it returns a message (flag) and the message
pop_packet_call(d) ==
    IF ~has_packet(d)
    THEN [data |-> d, err |-> "", flag |-> FALSE, msg |-> NoMsg]
    ELSE LET r == from_binary(d) IN
         IF r.err # ""
         THEN [data |-> d, err |-> r.err, flag |-> FALSE, msg |-> NoMsg]
         ELSE [data |-> pop_data(d), err |-> "", flag |-> TRUE, msg |-> r.msg]

(***************************************************************************)
(* Python values.  Every value is a record of one shape, so that values of  *)
(* different Python types can be compared: py is the type, id the identity  *)
(* of an object that is equal to itself only, v the numbers it holds (an    *)
(* int: one number; a str, unicode, array or UUID: its bytes or code        *)
(* points), items the objects of a list or tuple.                          *)
(***************************************************************************)
PyValue(py, id, v, items) == [py |-> py, id |-> id, v |-> v, items |-> items]

PyInt(n) == PyValue("int", "", << n >>, <<>>)

PyBool(b) == PyValue("bool", "", << IF b THEN 1 ELSE 0 >>, <<>>)

\* a Python 2 str: a string of bytes
PyStr(bytes) == PyValue("str", "", bytes, <<>>)

PyUnicode(points) == PyValue("unicode", "", points, <<>>)

\* array.array('B', bytes)
PyArray(bytes) == PyValue("array", "", bytes, <<>>)

\* uuid.UUID, held as its 16 bytes (UUID.bytes)
PyUUID(bytes) == PyValue("UUID", "", bytes, <<>>)

PyList(items) == PyValue("list", "", <<>>, items)

PyTuple(items) == PyValue("tuple", "", <<>>, items)

PyNone == PyValue("NoneType", "", <<>>, <<>>)

\* twisted.python.constants.ValueConstant(value) , id being its qualified name:
\* the class defines no __eq__ and no __hash__, so a constant is equal
\* to itself only, never to the int it carries
ValueConstant(id, value) == PyValue("ValueConstant", id, << value >>, <<>>)

\* Python's a == b for the values of this model: constants by identity, int and
\* bool by number, str and unicode by their characters when the str is ASCII
\* (Python 2 decodes the str as ASCII to compare), otherwise same type and content
PyEq(a, b) ==
    LET numeric == {"int", "bool"}
        text == {"str", "unicode"}
    IN  IF a.py = "ValueConstant" \/ b.py = "ValueConstant"
        THEN a = b
        ELSE IF a.py \in numeric /\ b.py \in numeric
        THEN a.v = b.v
        ELSE IF a.py \in text /\ b.py \in text /\ a.py # b.py
        THEN a.v = b.v /\ \A i \in 1..Len(a.v) : a.v[i] < 128
        ELSE a = b

\* class SystemIntents(Values)
SystemIntents ==
    [ RequestRegistration |-> ValueConstant("SystemIntents.RequestRegistration", 0),
      Register            |-> ValueConstant("SystemIntents.Register", Register),
      NotifyCommandResult |-> ValueConstant("SystemIntents.NotifyCommandResult", 2) ]

\* class DataTypes(Values)
DataTypes ==
    [ Null       |-> ValueConstant("DataTypes.Null", 0),
      Byte       |-> ValueConstant("DataTypes.Byte", 1),
      Word       |-> ValueConstant("DataTypes.Word", 2),
      Dword      |-> ValueConstant("DataTypes.Dword", 3),
      SignedByte |-> ValueConstant("DataTypes.SignedByte", 5),
      SignedWord |-> ValueConstant("DataTypes.SignedWord", 6),
      Boolean    |-> ValueConstant("DataTypes.Boolean", 11),
      Guid       |-> ValueConstant("DataTypes.Guid", 12),
      String     |-> ValueConstant("DataTypes.String", 13),
      Binary     |-> ValueConstant("DataTypes.Binary", 14),
      Array      |-> ValueConstant("DataTypes.Array", 15) ]

\* getattr(cls, name) on a Values class: AttributeError for a name the class
\* body does not define
getattr(cls, name) ==
    IF name \in DOMAIN cls
    THEN [err |-> "", value |-> cls[name]]
    ELSE [err |-> "AttributeError", value |-> PyNone]

(***************************************************************************)
(* Binary serializable classes: binary_property, array_binary_property and  *)
(* the classes that carry a __binary_struct__.                              *)
(***************************************************************************)
\* binary_property(type) held by the class attribute name
binary_property(type, name) ==
    [name |-> name, type |-> type, array |-> FALSE, element_type |-> ""]

\* array_binary_property(element_type) held by the class attribute name;
\* element_type is the name of the element class
array_binary_property(element_type, name) ==
    [name |-> name, type |-> DataTypes.Array, array |-> TRUE, element_type |-> element_type]

\* a class: nargs is the number of arguments __init__ requires, fields what
\* __init__ called without arguments leaves in the attributes
Class(name, nargs, fields, binary_struct) ==
    [name |-> name, nargs |-> nargs, fields |-> fields, binary_struct |-> binary_struct]

\* an object of class cls: its class, the __binary_struct__ it finds there and
\* its attributes
Object(cls, fields) ==
    [cls |-> cls.name, binary_struct |-> cls.binary_struct, fields |-> fields]

Parameters ==
    Class("Parameters", 0,
          [type |-> DataTypes.Null, name |-> PyStr(<<>>)],
          << binary_property(DataTypes.Byte, "type"),
             binary_property(DataTypes.String, "name") >>)

Equipment ==
    Class("Equipment", 3,
          [name |-> PyNone, code |-> PyNone, typename |-> PyNone],
          << binary_property(DataTypes.String, "name"),
             binary_property(DataTypes.String, "code"),
             binary_property(DataTypes.String, "typename") >>)

Notification ==
    Class("Notification", 3,
          [intent |-> PyNone, name |-> PyNone, parameters |-> PyNone],
          << binary_property(DataTypes.Word, "intent"),
             binary_property(DataTypes.String, "name"),
             array_binary_property("Parameters", "parameters") >>)

Command ==
    Class("Command", 0,
          [intent |-> PyInt(0), name |-> PyStr(<<>>), parameters |-> PyList(<<>>)],
          << binary_property(DataTypes.Word, "intent"),
             binary_property(DataTypes.String, "name"),
             array_binary_property("Parameters", "parameters") >>)

\* device_id starts as uuid.uuid1(), a fresh value; the all-zero UUID stands for it
DeviceRegistration ==
    Class("DeviceRegistration", 0,
          [device_id |-> PyUUID([i \in 1..16 |-> 0]),
           device_key |-> PyStr(<<>>), device_name |-> PyStr(<<>>),
           device_class_name |-> PyStr(<<>>), device_class_version |-> PyStr(<<>>),
           equipment |-> PyList(<<>>), notification |-> PyList(<<>>),
           commands |-> PyList(<<>>)],
          << binary_property(DataTypes.Guid, "device_id"),
             binary_property(DataTypes.String, "device_key"),
             binary_property(DataTypes.String, "device_name"),
             binary_property(DataTypes.String, "device_class_name"),
             binary_property(DataTypes.String, "device_class_version"),
             array_binary_property("Equipment", "equipment"),
             array_binary_property("Notification", "notification"),
             array_binary_property("Command", "commands") >>)

\* _SubObject(val = 0) of the formatter's tests
SubObject ==
    Class("SubObject", 0, [sword_prop |-> PyInt(0)],
          << binary_property(DataTypes.SignedWord, "sword_prop") >>)

\* _TestObject of the formatter's tests
TestObject ==
    Class("TestObject", 0,
          [byte_prop |-> PyInt(0), word_prop |-> PyInt(0), dword_prop |-> PyInt(0),
           bool_prop |-> PyBool(FALSE), false_prop |-> PyBool(FALSE),
           str_prop |-> PyStr(<<>>), arr_prop |-> PyList(<<>>),
           guid_prop |-> PyUUID([i \in 1..16 |-> 0]),
           aguid_prop |-> PyStr([i \in 1..16 |-> 0])],
          << binary_property(DataTypes.Byte, "byte_prop"),
             binary_property(DataTypes.Word, "word_prop"),
             binary_property(DataTypes.Dword, "dword_prop"),
             binary_property(DataTypes.Boolean, "bool_prop"),
             binary_property(DataTypes.Boolean, "false_prop"),
             binary_property(DataTypes.String, "str_prop"),
             array_binary_property("SubObject", "arr_prop"),
             binary_property(DataTypes.Guid, "guid_prop"),
             binary_property(DataTypes.Guid, "aguid_prop") >>)

\* the class an array_binary_property names as its element_type
ClassNamed(name) ==
    CASE name = "Parameters" -> Parameters
      [] name = "Equipment" -> Equipment
      [] name = "Notification" -> Notification
      [] name = "Command" -> Command
      [] name = "SubObject" -> SubObject
      [] name = "TestObject" -> TestObject
      [] OTHER -> DeviceRegistration

(***************************************************************************)
(* struct.pack and struct.unpack_from for the formats of                    *)
(* BinaryFormatter.__basic_type_map__ (the 8-byte and floating formats are  *)
(* left out: their values do not fit the integers of this model).          *)
(***************************************************************************)
\* BinaryFormatter.__basic_type_map__: the keys are the DataTypes constants
basic_type_map ==
    (DataTypes.Byte.id          :> [packstr |-> "B", datalen |-> 1])
    @@ (DataTypes.Word.id       :> [packstr |-> "<H", datalen |-> 2])
    @@ (DataTypes.Dword.id      :> [packstr |-> "<I", datalen |-> 4])
    @@ (DataTypes.SignedByte.id :> [packstr |-> "b", datalen |-> 1])
    @@ (DataTypes.SignedWord.id :> [packstr |-> "<h", datalen |-> 2])
    @@ (DataTypes.Boolean.id    :> [packstr |-> "?", datalen |-> 1])

\* prop.type in BinaryFormatter.__basic_type_map__: a dict lookup, by hash and
\* ==, so only the constant itself is found, never the int it carries
in_basic_type_map(type) ==
    type.py = "ValueConstant" /\ type.id \in DOMAIN basic_type_map

\* the size bytes of n, least significant first
LittleEndian(n, size) == [i \in 1..size |-> (n \div (256 ^ (i - 1))) % 256]

\* the number whose bytes, least significant first, are bytes
RECURSIVE FromLittleEndian(_)
FromLittleEndian(bytes) ==
    IF bytes = <<>> THEN 0 ELSE Head(bytes) + 256 * FromLittleEndian(Tail(bytes))

\* the values each integer format accepts: [lo, hi]
pack_range(packstr) ==
    CASE packstr = "B" -> << 0, 255 >>
      [] packstr = "<H" -> << 0, 65535 >>
      [] packstr = "<I" -> << 0, 2147483647 >>
      [] packstr = "b" -> << -128, 127 >>
      [] OTHER -> << -32768, 32767 >>

\* bool(value)
truth(value) ==
    IF value.py \in {"int", "bool"} THEN value.v[1] # 0
    ELSE Len(value.v) + Len(value.items) > 0

\* struct.pack(packstr, value): struct.error for a value that is not an integer
\* of the format's range
pack(packstr, value) ==
    IF packstr = "?"
    THEN [err |-> "", bytes |-> << IF truth(value) THEN 1 ELSE 0 >>]
    ELSE IF value.py \notin {"int", "bool"}
    THEN [err |-> "struct.error", bytes |-> <<>>]
    ELSE LET n == value.v[1]
             r == pack_range(packstr)
             size == IF packstr \in {"B", "b"} THEN 1 ELSE IF packstr = "<I" THEN 4 ELSE 2
         IN  IF n < r[1] \/ n > r[2]
             THEN [err |-> "struct.error", bytes |-> <<>>]
             ELSE [err |-> "", bytes |-> LittleEndian(IF n < 0 THEN n + 256 ^ size ELSE n, size)]

\* struct.unpack_from(packstr, data, offset)[0] with datalen the size of the
\* format: struct.error when fewer than datalen bytes follow offset
unpack_from(packstr, datalen, data, offset) ==
    IF Len(data) - offset < datalen
    THEN [err |-> "struct.error", value |-> PyNone]
    ELSE LET n == FromLittleEndian(Slice(data, offset, offset + datalen))
             half == (256 ^ datalen) \div 2
         IN  [err |-> "",
              value |-> IF packstr = "?" THEN PyBool(n # 0)
                        ELSE IF packstr \in {"b", "<h"} /\ n >= half
                        THEN PyInt(n - 2 * half)
                        ELSE PyInt(n)]

(***************************************************************************)
(* BinaryFormatter.serialize.  A call returns [err, bytes]: err is the      *)
(* exception that left it, "" when it returned bytes.                      *)
(***************************************************************************)
\* raise BinarySerializationError(...) or BinarySerializerError(...): building the
\* exception runs BinaryFormatterError.__init__, whose super(BinarySerializerError,
\* self) names a class that is not defined, and BinarySerializerError itself is
\* not defined either, so what leaves is a NameError
BinaryFormatterError == "NameError"

\* a list or a tuple
is_sequence(x) == "items" \in DOMAIN x /\ x.py \in {"list", "tuple"}

\* hasattr(x, '__binary_struct__'): an object of a class of this model
has_binary_struct(x) == "cls" \in DOMAIN x

\* the bytes a property that is not an array adds to the result
serialize_property(prop, value) ==
    IF prop.type = DataTypes.Null
    THEN [err |-> "", bytes |-> <<>>]
    ELSE IF in_basic_type_map(prop.type)
    THEN pack(basic_type_map[prop.type.id].packstr, value)
    ELSE IF prop.type = DataTypes.Guid
    THEN IF value.py = "UUID"
         THEN [err |-> "", bytes |-> value.v]
         ELSE IF Len(value.v) + Len(value.items) # 16
         THEN [err |-> BinaryFormatterError, bytes |-> <<>>]
         ELSE [err |-> "", bytes |-> value.v]
    ELSE IF prop.type = DataTypes.String
    THEN IF value.py \notin {"str", "array"}
         THEN [err |-> "TypeError", bytes |-> <<>>]
         ELSE LET n == pack("<H", PyInt(Len(value.v)))
              IN  IF n.err # "" THEN n ELSE [err |-> "", bytes |-> n.bytes \o value.v]
    ELSE IF prop.type = DataTypes.Binary
    THEN IF value.py \notin {"str", "array"}
         THEN [err |-> "TypeError", bytes |-> <<>>]
         ELSE LET n == pack("<H", PyInt(Len(value.v)))
              IN  IF n.err # "" THEN n ELSE [err |-> "", bytes |-> n.bytes \o value.v]
    ELSE [err |-> BinaryFormatterError, bytes |-> <<>>]

\* BinaryFormatter.serialize(x); an array property is serialized by the call on
\* its list, every other property by serialize_property
RECURSIVE serialize(_)
serialize(x) ==
    LET RECURSIVE elements(_, _)
        elements(i, result) ==
            IF i > Len(x.items)
            THEN [err |-> "", bytes |-> result]
            ELSE LET e == serialize(x.items[i])
                 IN  IF e.err # "" THEN e ELSE elements(i + 1, result \o e.bytes)
        RECURSIVE properties(_, _)
        properties(i, result) ==
            LET struct == x.binary_struct IN
            IF i > Len(struct)
            THEN [err |-> "", bytes |-> result]
            ELSE LET prop == struct[i]
                     value == x.fields[prop.name]
                     p == IF prop.type = DataTypes.Array
                          THEN serialize(value)
                          ELSE serialize_property(prop, value)
                 IN  IF p.err # "" THEN p ELSE properties(i + 1, result \o p.bytes)
    IN  IF is_sequence(x)
        THEN LET n == pack("<H", PyInt(Len(x.items)))
             IN  IF n.err # "" THEN n ELSE elements(1, n.bytes)
        ELSE IF has_binary_struct(x)
        THEN properties(1, <<>>)
        ELSE [err |-> BinaryFormatterError, bytes |-> <<>>]

(***************************************************************************)
(* BinaryFormatter.deserialize.  A call returns [err, obj, offset]: err is  *)
(* the exception that left it, offset the end of what _deserialize read.    *)
(***************************************************************************)
\* bytearray.decode('utf-8') for one- and two-byte characters; any other byte
\* above 0x7f is taken as undecodable (three- and four-byte characters are not
\* modelled)
RECURSIVE utf8_decode(_)
utf8_decode(bytes) ==
    IF bytes = <<>>
    THEN [err |-> "", points |-> <<>>]
    ELSE IF bytes[1] < 128
    THEN LET rest == utf8_decode(Tail(bytes))
         IN  [err |-> rest.err, points |-> << bytes[1] >> \o rest.points]
    ELSE IF bytes[1] \in 194..223 /\ Len(bytes) > 1 /\ bytes[2] \in 128..191
    THEN LET rest == utf8_decode(Tail(Tail(bytes)))
         IN  [err |-> rest.err,
              points |-> << ((bytes[1] % 32) * 64) + (bytes[2] % 64) >> \o rest.points]
    ELSE [err |-> "UnicodeDecodeError", points |-> <<>>]

\* the fields tuple _deserialize builds from the 16 bytes of a Guid: each field is
\* the bytes or-ed together, first byte shifted most, so the bytes are its digits
guid_fields(value) ==
    << Slice(value, 0, 4), Slice(value, 4, 6), Slice(value, 6, 8),
       << At(value, 8) >>, << At(value, 9) >>, Slice(value, 10, 16) >>

\* uuid.UUID(fields = fields): time_low, time_mid, time_hi_version,
\* clock_seq_hi_variant, clock_seq_low and node, in this order, most significant
\* first, make the 128-bit number whose 16 bytes are UUID.bytes
UUID_from_fields(fields) ==
    PyUUID(fields[1] \o fields[2] \o fields[3] \o fields[4] \o fields[5] \o fields[6])

\* the outcome of _deserialize
Deserialized(err, o, offset) == [err |-> err, obj |-> o, offset |-> offset]

\* what _deserialize gives for a property that is not an array: [err, value, offset]
deserialize_property(prop, data, offset) ==
    LET unpacked(f, u) ==
            [err |-> u.err, set |-> TRUE, value |-> u.value, offset |-> offset + f.datalen]
        basic(f) == unpacked(f, unpack_from(f.packstr, f.datalen, data, offset))
        decoded_text(text, end) ==
            [err |-> text.err, set |-> TRUE, value |-> PyUnicode(text.points), offset |-> end]
        sliced(bstr, end) ==
            IF prop.type = DataTypes.Binary
            THEN [err |-> "", set |-> TRUE, value |-> PyArray(bstr), offset |-> end]
            ELSE decoded_text(utf8_decode(bstr), end)
        counted(n) ==
            IF n.err # ""
            THEN [err |-> n.err, set |-> FALSE, value |-> PyNone, offset |-> offset]
            ELSE sliced(Slice(data, offset + 2, offset + 2 + n.value.v[1]),
                        offset + 2 + n.value.v[1])
    IN
    IF prop.type = DataTypes.Null
    THEN [err |-> "", set |-> FALSE, value |-> PyNone, offset |-> offset]
    ELSE IF in_basic_type_map(prop.type)
    THEN basic(basic_type_map[prop.type.id])
    ELSE IF prop.type = DataTypes.Guid
    THEN IF Len(data) - offset < 16
         THEN [err |-> "struct.error", set |-> FALSE, value |-> PyNone, offset |-> offset]
         ELSE [err |-> "", set |-> TRUE,
               value |-> UUID_from_fields(guid_fields(Slice(data, offset, offset + 16))),
               offset |-> offset + 16]
    ELSE IF prop.type \in {DataTypes.String, DataTypes.Binary}
    THEN counted(unpack_from("<H", 2, data, offset))
    ELSE [err |-> BinaryFormatterError, set |-> FALSE, value |-> PyNone, offset |-> offset]

\* _deserialize(data, type, offset)
RECURSIVE deserialize_at(_, _, _)
deserialize_at(data, type, offset) ==
    LET RECURSIVE elements(_, _, _, _)
        \* the for loop over range(0, arrlen) of an array property
        elements(element_type, n, value, off) ==
            LET appended(e) ==
                    IF e.err # ""
                    THEN [err |-> e.err, set |-> FALSE, value |-> PyNone, offset |-> off]
                    ELSE elements(element_type, n - 1, Append(value, e.obj), e.offset)
            IN  IF n = 0
                THEN [err |-> "", set |-> TRUE, value |-> PyList(value), offset |-> off]
                ELSE appended(deserialize_at(data, element_type, off))
        array(prop, off) ==
            LET counted(n) ==
                    IF n.err # ""
                    THEN [err |-> n.err, set |-> FALSE, value |-> PyNone, offset |-> off]
                    ELSE elements(ClassNamed(prop.element_type), n.value.v[1], <<>>, off + 2)
            IN  IF ~prop.array
                THEN [err |-> BinaryFormatterError, set |-> FALSE, value |-> PyNone,
                      offset |-> off]
                ELSE counted(unpack_from("<H", 2, data, off))
        RECURSIVE properties(_, _, _)
        \* the for loop over obj.__binary_struct__
        properties(i, o, off) ==
            LET read(prop, p) ==
                    IF p.err # ""
                    THEN Deserialized(p.err, o, off)
                    ELSE properties(i + 1,
                                    IF p.set
                                    THEN [o EXCEPT !.fields[prop.name] = p.value]
                                    ELSE o,
                                    p.offset)
                property(prop) ==
                    read(prop, IF prop.type = DataTypes.Array
                               THEN array(prop, off)
                               ELSE deserialize_property(prop, data, off))
            IN  IF i > Len(type.binary_struct)
                THEN Deserialized("", o, off)
                ELSE property(type.binary_struct[i])
    IN  IF type.nargs > 0
        THEN Deserialized("TypeError", Object(type, type.fields), offset)
        ELSE properties(1, Object(type, type.fields), offset)

\* BinaryFormatter.deserialize(data, type); the caller is given obj only
deserialize(data, type) == deserialize_at(data, type, 0)

(***************************************************************************)
(* AutoClassFactory and BinaryFactory.  The factory is taken as built:      *)
(* BinaryFactory.__init__ names Deferred, which the module never imports    *)
(* (it imports defer), so the name is read as twisted's defer.Deferred.     *)
(* The state of a factory is [command_map, registration_request]; a call    *)
(* returns [err, factory]: the exception that left it and the state it      *)
(* leaves.                                                                  *)
(***************************************************************************)
\* AutoClassFactory.generate(command): the class made for a command, or
\* NotImplementedError at the first parameter whose type is DataTypes.Array
generate(command) ==
    LET params == command.fields.parameters.items
        arrays == { i \in 1..Len(params) : PyEq(params[i].fields.type, DataTypes.Array) }
    IN  IF arrays # {}
        THEN [err |-> "NotImplementedError", class |-> PyNone]
        ELSE [err |-> "",
              class |-> [name |-> command.fields.name.v,
                         binary_struct |->
                             [i \in 1..Len(params) |->
                                 [name |-> params[i].fields.name.v,
                                  type |-> params[i].fields.type]]]]

\* a twisted Deferred that has not fired
Deferred == [called |-> 0]

\* Deferred.callback(result): fires the callbacks, AlreadyCalledError when the
\* deferred has fired before
callback(d) ==
    IF d.called # 0
    THEN [err |-> "AlreadyCalledError", deferred |-> d]
    ELSE [err |-> "", deferred |-> [called |-> 1]]

\* the state BinaryFactory.__init__ sets up (packet_buffer apart)
Factory(map, deferred) == [command_map |-> map, registration_request |-> deferred]

\* command_name in self.command_map
in_command_map(map, name) == name \in DOMAIN map

\* self.command_map[command_name] = binary_class
set_command(map, name, class) == (name :> class) @@ map

\* BinaryFactory.register_command_map(command_name, binary_class)
register_command_map_call(f, command_name, binary_class) ==
    [err |-> "", factory |-> [f EXCEPT !.command_map = set_command(@, command_name, binary_class)]]

\* handle_commands without the test `if not command.name in self.command_map`
RECURSIVE handle_commands_overwriting(_, _, _)
handle_commands_overwriting(map, commands, i) ==
    LET generated(command, g) ==
            IF g.err # ""
            THEN [err |-> g.err, map |-> map]
            ELSE handle_commands_overwriting(set_command(map, command.fields.name.v, g.class),
                                             commands, i + 1)
        handle(command) == generated(command, generate(command))
    IN  IF i > Len(commands)
        THEN [err |-> "", map |-> map]
        ELSE handle(commands[i])

\* the for loop of BinaryFactory.handle_registration_request(reg) from command i on
RECURSIVE handle_commands(_, _, _)
handle_commands(map, commands, i) ==
    LET generated(command, g) ==
            IF g.err # ""
            THEN [err |-> g.err, map |-> map]
            ELSE handle_commands(set_command(map, command.fields.name.v, g.class),
                                 commands, i + 1)
        handle(command) ==
            IF in_command_map(map, command.fields.name.v)
            THEN handle_commands(map, commands, i + 1)
            ELSE generated(command, generate(command))
    IN  IF i > Len(commands)
        THEN [err |-> "", map |-> map]
        ELSE handle(commands[i])

\* BinaryFactory.handle_registration_request(reg)
handle_registration_request_call(f, reg) ==
    LET fired(h, c) == [err |-> c.err, factory |-> Factory(h.map, c.deferred)]
        handled(h) ==
            IF h.err # ""
            THEN [err |-> h.err, factory |-> [f EXCEPT !.command_map = h.map]]
            ELSE fired(h, callback(f.registration_request))
    IN  handled(handle_commands(f.command_map, reg.fields.commands.items, 1))

\* packet_received without the test of the intent: every packet is taken as a
\* registration
packet_received_any_intent(f, packet) ==
    LET deserialized(regreq) ==
            IF regreq.err # ""
            THEN [err |-> regreq.err, factory |-> f]
            ELSE handle_registration_request_call(f, regreq.obj)
    IN  deserialized(deserialize(packet.data, DeviceRegistration))

\* BinaryFactory.packet_received(packet): packet.intent is the int from_binary
\* made, SystemIntents.Register a ValueConstant
packet_received_call(f, packet) ==
    LET deserialized(regreq) ==
            IF regreq.err # ""
            THEN [err |-> regreq.err, factory |-> f]
            ELSE handle_registration_request_call(f, regreq.obj)
    IN  IF PyEq(PyInt(packet.intent), SystemIntents.Register)
        THEN deserialized(deserialize(packet.data, DeviceRegistration))
        ELSE [err |-> "", factory |-> f]

\* dataReceived handing the packets over newest first
RECURSIVE receive_loop_newest_first(_, _, _)
receive_loop_newest_first(d, rcv, f) ==
    LET handed(p, r) ==
            IF r.err # ""
            THEN [data |-> p.data, received |-> << p.msg >> \o rcv,
                  factory |-> r.factory, err |-> r.err]
            ELSE receive_loop_newest_first(p.data, << p.msg >> \o rcv, r.factory)
        popped(p) ==
            IF p.err # ""
            THEN [data |-> p.data, received |-> rcv, factory |-> f, err |-> p.err]
            ELSE handed(p, packet_received_call(f, p.msg))
    IN  IF ~has_packet(d)
        THEN [data |-> d, received |-> rcv, factory |-> f, err |-> ""]
        ELSE popped(pop_packet_call(d))

\* dataReceived with `if` in place of `while`: one packet for each call
receive_loop_once(d, rcv, f) ==
    LET handed(p, r) ==
            [data |-> p.data, received |-> Append(rcv, p.msg),
             factory |-> r.factory, err |-> r.err]
        popped(p) ==
            IF p.err # ""
            THEN [data |-> p.data, received |-> rcv, factory |-> f, err |-> p.err]
            ELSE handed(p, packet_received_call(f, p.msg))
    IN  IF ~has_packet(d)
        THEN [data |-> d, received |-> rcv, factory |-> f, err |-> ""]
        ELSE popped(pop_packet_call(d))

\* the while loop of BinaryProtocol.dataReceived from _data = d, rcv being the
\* packets handed to packet_received so far and f the state of the factory
RECURSIVE receive_loop(_, _, _)
receive_loop(d, rcv, f) ==
    LET handed(p, r) ==
            IF r.err # ""
            THEN [data |-> p.data, received |-> Append(rcv, p.msg),
                  factory |-> r.factory, err |-> r.err]
            ELSE receive_loop(p.data, Append(rcv, p.msg), r.factory)
        popped(p) ==
            IF p.err # ""
            THEN [data |-> p.data, received |-> rcv, factory |-> f, err |-> p.err]
            ELSE handed(p, packet_received_call(f, p.msg))
    IN  IF ~has_packet(d)
        THEN [data |-> d, received |-> rcv, factory |-> f, err |-> ""]
        ELSE popped(pop_packet_call(d))

\* BinaryProtocol.dataReceived(chunk)
dataReceived_call(d, rcv, f, chunk) == receive_loop(append_data(d, chunk), rcv, f)

\* RegistrationRequest.intent
RegistrationRequest_intent == getattr(SystemIntents, "RegistrationRequest")

\* RegistrationRequest().to_binary(): [err, bytes].  to_binary reads self.intent
\* first of the header fields that can fail, and masks it with & 0xff, which an
\* object that is not a number does not support
RegistrationRequest_to_binary ==
    LET intent == RegistrationRequest_intent IN
    IF intent.err # ""
    THEN [err |-> intent.err, bytes |-> <<>>]
    ELSE IF intent.value.py \notin {"int", "bool"}
    THEN [err |-> "TypeError", bytes |-> <<>>]
    ELSE [err |-> "",
          bytes |-> to_binary(BinaryMessage(PACKET_SIGNATURE, 1, 0, intent.value.v[1], <<>>))]

\* BinaryProtocol.connectionMade: what it adds to the writes of the transport
connectionMade_call(written) ==
    LET pkt == RegistrationRequest_to_binary IN
    IF pkt.err # ""
    THEN [err |-> pkt.err, transport |-> written]
    ELSE [err |-> "", transport |-> Append(written, pkt.bytes)]

(***************************************************************************)
(* State.                                                                   *)
(***************************************************************************)
VARIABLES
    packet_buffer,  \* BinaryFactory.packet_buffer._data
    ret,            \* outcome of the last call: what it returned or raised
    input,          \* the segments the device sends on this connection
    wire,           \* the bytes of input the transport has not read yet
    received,       \* the packets handed to BinaryFactory.packet_received, in order
    message,        \* a BinaryMessage to encode
    binary,         \* its to_binary(), <<>> before the call
    decoded,        \* the outcome of from_binary(binary)
    transport,      \* what BinaryProtocol.transport.write was given, in order
    command_map,    \* BinaryFactory.command_map: command name -> generated class
    registration_request, \* BinaryFactory._registration_request, a Deferred
    delivered,      \* the commands handed to the layer above the factory, in order
    connections,    \* the protocols built by the factory, each with its device
    obj,            \* an object to serialize
    binstr,         \* its BinaryFormatter.serialize(), <<>> before the call
    res             \* the outcome of BinaryFormatter.deserialize(binstr, type)

bufVars == << packet_buffer, ret >>

wireVars == << input, wire, received >>

frameVars == << message, binary, decoded >>

factoryVars == << transport, command_map, registration_request, delivered, connections >>

codecVars == << obj, binstr, res >>

vars == << packet_buffer, ret, input, wire, received, message, binary, decoded,
           transport, command_map, registration_request, delivered, connections,
           obj, binstr, res >>

\* the outcome of a call: err is the exception that left it ("" for a normal return)
Outcome(op, err, flag, msg) == [op |-> op, err |-> err, flag |-> flag, msg |-> msg]

\* from_binary has not been called
NotDecoded == [err |-> "not called", msg |-> NoMsg]

\* the bytes free chunks are made of: both signature bytes and one other byte
Alphabet == {0, PACKET_SIGNATURE_HI, PACKET_SIGNATURE_LO}

\* the frames a device sends
Messages ==
    { BinaryMessage(PACKET_SIGNATURE, 1, 0, i, p) :
        i \in {0, Register, 4}, p \in SeqsOf({0, PACKET_SIGNATURE_HI}, 0, MaxPayload) }

InitBuffer ==
    /\ packet_buffer = <<>>
    /\ ret = Outcome("init", "", FALSE, NoMsg)

InitNoWire ==
    /\ input = <<>>
    /\ wire = <<>>
    /\ received = <<>>

InitNoFrame ==
    /\ message = NoMsg
    /\ binary = <<>>
    /\ decoded = NotDecoded

\* deserialize has not been called
NotDeserialized == Deserialized("not called", PyNone, 0)

\* what BinaryFactory.__init__ leaves: an empty command_map, a Deferred not fired;
\* nothing is connected
InitFactory ==
    /\ transport = <<>>
    /\ command_map = << >>
    /\ registration_request = Deferred
    /\ delivered = <<>>
    /\ connections = <<>>

InitNoCodec ==
    /\ obj = PyNone
    /\ binstr = <<>>
    /\ res = NotDeserialized

(***************************************************************************)
(* Spec: any client calling append, has_packet, pop_packet and clear on one *)
(* BinaryPacketBuffer.                                                      *)
(***************************************************************************)
\* junk long enough to fill a frame header, then two free bytes
JunkChunks ==
    { [i \in 1..(EMPTY_PACKET_LENGTH - 2) |-> 0] \o s : s \in SeqsOf(Alphabet, 2, 2) }

Chunks == SeqsOf(Alphabet, 1, MaxChunk) \cup { to_binary(m) : m \in Messages } \cup JunkChunks

Init == InitBuffer /\ InitNoWire /\ InitNoFrame /\ InitFactory /\ InitNoCodec

append(value) ==
    /\ Len(packet_buffer) + Len(value) <= MaxBuf
    /\ packet_buffer' = append_data(packet_buffer, value)
    /\ ret' = Outcome("append", "", FALSE, NoMsg)
    /\ UNCHANGED << wireVars, frameVars, factoryVars, codecVars >>

call_has_packet ==
    /\ ret' = Outcome("has_packet", "", has_packet(packet_buffer), NoMsg)
    /\ UNCHANGED << packet_buffer, wireVars, frameVars, factoryVars, codecVars >>

clear ==
    /\ packet_buffer' = <<>>
    /\ ret' = Outcome("clear", "", FALSE, NoMsg)
    /\ UNCHANGED << wireVars, frameVars, factoryVars, codecVars >>

pop_packet ==
    LET p == pop_packet_call(packet_buffer) IN
    /\ packet_buffer' = p.data
    /\ ret' = Outcome("pop_packet", p.err, p.flag, p.msg)
    /\ UNCHANGED << wireVars, frameVars, factoryVars, codecVars >>

Next ==
    \/ \E value \in Chunks : append(value)
    \/ call_has_packet
    \/ pop_packet
    \/ clear

Spec == Init /\ [][Next]_vars

(***************************************************************************)
(* Properties of the buffer, checked under Spec.                            *)
(***************************************************************************)
\* the buffer is empty, exactly [0xC5], or begins with 0xC5 0xC3
InSync(d) ==
    \/ d = <<>>
    \/ d = << 197 >>
    \/ Len(d) >= 2 /\ d[1] = 197 /\ d[2] = 195

\* s is a suffix of t
IsSuffixOf(s, t) ==
    /\ Len(s) <= Len(t)
    /\ s = SubSeq(t, Len(t) - Len(s) + 1, Len(t))

\* d holds the adjacent pair 0xC5 0xC3 somewhere
HasSignaturePair(d) == \E i \in 1..(Len(d) - 1) : d[i] = 197 /\ d[i + 1] = 195

\* C1: starting from an empty buffer, after every append and every pop_packet the
\* buffer is either empty, or exactly [0xC5], or has length >= 2 and begins with
\* 0xC5 0xC3.
C1_BufferInvariant == InSync(packet_buffer)

\* C5: pop_packet never fails with InvalidSignatureError: whenever has_packet() is
\* true the buffer starts with 0xC5 0xC3, so no signature error reaches the caller.
C5_NoSignatureErrorFromPop ==
    /\ ret.err # "InvalidSignatureError"
    /\ has_packet(packet_buffer) => (packet_buffer[1] = 197 /\ packet_buffer[2] = 195)

\* C8: has_packet() returns true if and only if the buffer holds at least 9 bytes
\* and at least 9 + L bytes, L being the little-endian 16-bit field at offsets 4..5
\* of the buffer; the call leaves the buffer as it was.
C8_HasPacketIff ==
    [][ret'.op = "has_packet" =>
        /\ packet_buffer' = packet_buffer
        /\ ret'.flag <=> /\ Len(packet_buffer) >= 9
                         /\ Len(packet_buffer) >= 9 + packet_buffer[5] + 256 * packet_buffer[6]
      ]_vars

\* C8 witness: has_packet() answered true on a buffer whose length field is 1
C8_Witness ==
    /\ ret.op = "has_packet"
    /\ ret.flag
    /\ packet_buffer[5] = 1

\* C9: when pop_packet returns a frame with payload length N, exactly the first
\* 9 + N bytes leave the front of the buffer, the bytes after them are kept in order
\* (resynchronization may only drop a prefix of them, and drops nothing when they
\* are in sync), and the frame's fields are those encoded in the removed bytes.
C9_PopRemovesTheFrame ==
    [][(ret'.op = "pop_packet" /\ ret'.flag) =>
        LET N == Len(ret'.msg.data)
            removed == SubSeq(packet_buffer, 1, 9 + N)
            kept == SubSeq(packet_buffer, 9 + N + 1, Len(packet_buffer))
        IN  /\ Len(packet_buffer) >= 9 + N
            /\ N = removed[5] + 256 * removed[6]
            /\ IsSuffixOf(packet_buffer', kept)
            /\ InSync(kept) => packet_buffer' = kept
            /\ ret'.msg = [signature |-> 256 * removed[1] + removed[2],
                           version |-> removed[3],
                           flags |-> removed[4],
                           intent |-> removed[7] + 256 * removed[8],
                           data |-> SubSeq(removed, 9, 8 + N)]
      ]_vars

\* C9 witness: a frame with a one-byte payload was popped and the byte after it stays
C9_Witness ==
    /\ ret.op = "pop_packet"
    /\ ret.flag
    /\ Len(ret.msg.data) = 1
    /\ packet_buffer = << 197 >>

\* C10: a lone 0xC5 at the tail is preserved by resynchronization: when what append
\* leaves holds no signature pair and ends with 0xC5, the buffer is exactly [0xC5].
C10_LoneSignatureHiKept ==
    (/\ ret.op = "append"
     /\ packet_buffer # <<>>
     /\ packet_buffer[Len(packet_buffer)] = 197
     /\ ~HasSignaturePair(packet_buffer))
    => packet_buffer = << 197 >>

(***************************************************************************)
(* SpecFrame: to_binary of a frame, then from_binary of the bytes.          *)
(***************************************************************************)
\* payloads long enough to use the high byte of the length field
LongPayloads == { [i \in 1..n |-> 255] : n \in {255, 256, 257} }

\* the frames to encode: field values at and just beyond the ends of their ranges
FrameInputs ==
    { BinaryMessage(PACKET_SIGNATURE, v, f, i, p) :
        v \in {0, 2, 255, 256},
        f \in {0, 3, 255},
        i \in {0, 4, 255, 256, 65535, 65536},
        p \in SeqsOf({0, 49, 255}, 0, MaxPayload) \cup LongPayloads }

InitFrame ==
    /\ InitBuffer
    /\ InitNoWire
    /\ InitFactory
    /\ InitNoCodec
    /\ message \in FrameInputs
    /\ binary = <<>>
    /\ decoded = NotDecoded

encode ==
    /\ binary = <<>>
    /\ binary' = to_binary(message)
    /\ UNCHANGED << bufVars, wireVars, message, decoded, factoryVars, codecVars >>

decode ==
    /\ binary # <<>>
    /\ decoded = NotDecoded
    /\ decoded' = from_binary(binary)
    /\ UNCHANGED << bufVars, wireVars, message, binary, factoryVars, codecVars >>

NextFrame ==
    \/ encode
    \/ decode

SpecFrame == InitFrame /\ [][NextFrame]_vars

\* version and flags in 0..255, intent in 0..65535, payload of at most 65535 bytes
InRange(m) ==
    /\ m.signature = 50627
    /\ m.version \in 0..255
    /\ m.flags \in 0..255
    /\ m.intent \in 0..65535
    /\ Len(m.data) <= 65535

\* C6: frame round trip: for every frame with signature 0xC5C3, version and flags in
\* 0..255, intent in 0..65535 and a payload of at most 65535 bytes,
\* from_binary(to_binary(f)) succeeds and returns a frame with the same signature,
\* version, flags, intent, length and payload.
C6_FrameRoundTrip ==
    (decoded # NotDecoded /\ InRange(message)) =>
        /\ decoded.err = ""
        /\ decoded.msg.signature = message.signature
        /\ decoded.msg.version = message.version
        /\ decoded.msg.flags = message.flags
        /\ decoded.msg.intent = message.intent
        /\ Len(decoded.msg.data) = Len(message.data)
        /\ decoded.msg.data = message.data

\* C6 witness: a frame with a 256-byte payload and intent 0xFFFF came back decoded
C6_Witness ==
    /\ decoded # NotDecoded
    /\ InRange(message)
    /\ message.intent = 65535
    /\ message.version = 255
    /\ Len(message.data) = 256
    /\ decoded.msg.data = message.data

\* C7: checksum law: the bytes of every frame produced by to_binary (header, payload
\* and checksum byte) sum to 0xFF modulo 256; equivalently the checksum byte is
\* (0xFF - (sum of the preceding bytes mod 256)) & 0xFF.
C7_ChecksumLaw ==
    binary # <<>> =>
        /\ Sum(binary) % 256 = 255
        /\ binary[Len(binary)] = (255 - (Sum(SubSeq(binary, 1, Len(binary) - 1)) % 256)) % 256
        /\ Len(binary) = 9 + Len(message.data)

\* C7 witness: an encoded frame with field values beyond one byte and a long payload
C7_Witness ==
    /\ binary # <<>>
    /\ message.intent = 65536
    /\ message.version = 256
    /\ Len(message.data) = 257

(***************************************************************************)
(* What a device puts on the wire: segments that are frames, frames with a  *)
(* wrong checksum byte, or junk.                                            *)
(***************************************************************************)
Segment(kind, msg, bytes) == [kind |-> kind, msg |-> msg, bytes |-> bytes]

\* the bytes of m with the checksum byte off by one
BadCrcBytes(m) ==
    LET b == to_binary(m)
    IN  [b EXCEPT ![Len(b)] = (b[Len(b)] + 1) % 256]

\* the bytes of a sequence of segments, in order
RECURSIVE Flatten(_)
Flatten(segs) == IF segs = <<>> THEN <<>> ELSE Head(segs).bytes \o Flatten(Tail(segs))

(***************************************************************************)
(* SpecJunk: junk without the signature pair, then one valid frame, handed  *)
(* to append in chunks of any size.                                         *)
(***************************************************************************)
JunkInputs == { j \in SeqsOf(Alphabet, 0, MaxJunk) : ~HasSignaturePair(j) }

InitJunk ==
    /\ InitBuffer
    /\ InitNoFrame
    /\ InitFactory
    /\ InitNoCodec
    /\ \E j \in JunkInputs, m \in Messages :
          input = << Segment("junk", NoMsg, j), Segment("frame", m, to_binary(m)) >>
    /\ wire = Flatten(input)
    /\ received = <<>>

\* the client appends the next n bytes of the wire
append_from_wire(n) ==
    /\ packet_buffer' = append_data(packet_buffer, SubSeq(wire, 1, n))
    /\ wire' = SubSeq(wire, n + 1, Len(wire))
    /\ ret' = Outcome("append", "", FALSE, NoMsg)
    /\ UNCHANGED << input, received, frameVars, factoryVars, codecVars >>

NextJunk == \E n \in 1..Len(wire) : append_from_wire(n)

SpecJunk == InitJunk /\ [][NextJunk]_vars

\* C3: junk tolerance: for any byte sequence J without the adjacent pair 0xC5 0xC3
\* and any valid frame F, feeding J then F into an empty buffer, in one chunk or in
\* any chunks, leaves the buffer holding exactly the bytes of F, has_packet() is
\* true, and the frame popped is the one popped after feeding F alone.
C3_JunkTolerance ==
    wire = <<>> =>
        LET F == input[2].bytes
            popped == pop_packet_call(packet_buffer)
            alone == pop_packet_call(append_data(<<>>, F))
        IN  /\ packet_buffer = F
            /\ has_packet(packet_buffer)
            /\ popped.flag
            /\ alone.flag
            /\ popped.msg = alone.msg
            /\ popped.msg = input[2].msg

\* C3 witness: junk of full length ending in 0xC5, then a frame with a payload,
\* all fed
C3_Witness ==
    /\ wire = <<>>
    /\ Len(input[1].bytes) = MaxJunk
    /\ input[1].bytes[MaxJunk] = 197
    /\ Len(input[2].msg.data) = 1
    /\ packet_buffer = input[2].bytes

(***************************************************************************)
(* SpecWire: a connection.  The device sends frames, some with a wrong      *)
(* checksum; the transport hands the bytes to dataReceived in chunks of any *)
(* size.                                                                    *)
(***************************************************************************)
WireMessages ==
    { BinaryMessage(PACKET_SIGNATURE, 1, 0, i, p) :
        i \in {Register, 4}, p \in SeqsOf({0}, 0, MaxPayload) }

\* junk between frames: a lone 0xC5, and 0xC5 followed by a byte that is not 0xC3
WireJunk == { << PACKET_SIGNATURE_HI >>, << PACKET_SIGNATURE_HI, 0 >> }

\* what the device sends: the frames, the frames without payload with a wrong
\* checksum, and junk
WireSegments ==
    { Segment("frame", m, to_binary(m)) : m \in WireMessages }
    \cup { Segment("badcrc", m, BadCrcBytes(m)) : m \in { x \in WireMessages : x.data = <<>> } }
    \cup { Segment("junk", NoMsg, j) : j \in WireJunk }

\* the factory as BinaryFactory.__init__ sets it up: one empty packet_buffer, which
\* every protocol built by the factory appends to
InitWire ==
    /\ InitBuffer
    /\ InitNoFrame
    /\ InitFactory
    /\ InitNoCodec
    /\ input \in SeqsOf(WireSegments, 1, MaxFrames)
    /\ wire = Flatten(input)
    /\ received = <<>>

\* BinaryProtocol.dataReceived with the next n bytes of the wire
dataReceived(n) ==
    LET returned(r) ==
            /\ packet_buffer' = r.data
            /\ received' = r.received
            /\ command_map' = r.factory.command_map
            /\ registration_request' = r.factory.registration_request
            /\ ret' = Outcome("dataReceived", r.err, FALSE, NoMsg)
    IN
    /\ returned(dataReceived_call(packet_buffer, received,
                                  Factory(command_map, registration_request),
                                  SubSeq(wire, 1, n)))
    /\ wire' = SubSeq(wire, n + 1, Len(wire))
    /\ UNCHANGED << input, frameVars, transport, delivered, connections, codecVars >>

NextWire == \E n \in 1..Len(wire) : dataReceived(n)

SpecWire == InitWire /\ [][NextWire]_vars

\* C2: a frame with a wrong checksum is dropped and processing continues: once all
\* bytes have been handed to dataReceived, every valid frame that followed a
\* bad-checksum frame has been delivered to packet_received.
C2_ValidFrameAfterBadCrcDelivered ==
    wire = <<>> =>
        \A i \in 2..Len(input) :
            (input[i - 1].kind = "badcrc" /\ input[i].kind = "frame")
            => \E k \in 1..Len(received) : received[k] = input[i].msg

\* C4: chunking independence: for any concatenation of valid frames and any way of
\* splitting it into chunks, dataReceived delivers the same sequence of frames as
\* it delivers when the whole concatenation arrives as one chunk.
C4_ChunkingIndependence ==
    (wire = <<>> /\ \A i \in 1..Len(input) : input[i].kind = "frame") =>
        received = dataReceived_call(<<>>, <<>>, Factory(<< >>, Deferred), Flatten(input)).received

\* C4 witness: two valid frames have arrived in chunks and both were delivered
C4_Witness ==
    /\ wire = <<>>
    /\ Len(input) = 2
    /\ \A i \in 1..Len(input) : input[i].kind = "frame"
    /\ received = << input[1].msg, input[2].msg >>

\* the frames of the input, in the order of their bytes on the wire
RECURSIVE WireFrames(_)
WireFrames(segs) ==
    IF segs = <<>> THEN <<>>
    ELSE IF Head(segs).kind = "frame" THEN << Head(segs).msg >> \o WireFrames(Tail(segs))
    ELSE WireFrames(Tail(segs))

\* a is b with some elements left out: the elements of a are elements of b, each
\* used once, in the order of b
RECURSIVE IsSubsequence(_, _)
IsSubsequence(a, b) ==
    IF a = <<>> THEN TRUE
    ELSE IF b = <<>> THEN FALSE
    ELSE IF Head(a) = Head(b) THEN IsSubsequence(Tail(a), Tail(b))
    ELSE IsSubsequence(a, Tail(b))

\* C16: frames are handed to packet_received in wire-arrival order and none twice:
\* at every moment the packets delivered are frames of the input, each delivered
\* once, in the order of their bytes on the wire.
C16_DeliveredInWireOrder == IsSubsequence(received, WireFrames(input))

\* C16 witness: two different frames were sent and both have been delivered
C16_Witness ==
    /\ Len(received) = 2
    /\ received[1] # received[2]
    /\ ret.op = "dataReceived"

(***************************************************************************)
(* SpecFactory: one BinaryFactory and the calls its protocol and the layer  *)
(* above make on it: connectionMade, packet_received with a frame popped    *)
(* from the buffer, handle_registration_request, register_command_map.      *)
(***************************************************************************)
\* Parameters(type, name)
Param(type, name) == Object(Parameters, [type |-> type, name |-> PyStr(name)])

\* Command(intent, name, parameters)
CommandObject(intent, name, parameters) ==
    Object(Command, [intent |-> PyInt(intent), name |-> PyStr(name),
                     parameters |-> PyList(parameters)])

\* a DeviceRegistration that declares commands and nothing else
Registration(commands) ==
    Object(DeviceRegistration, [DeviceRegistration.fields EXCEPT !.commands = PyList(commands)])

\* the command names of the model, "P" and "Q", and the intent each is declared with
CommandNames == { << 80 >>, << 81 >> }

CommandIntent(name) == 20 + name[1]

\* the parameter lists a command declares: (Word, Byte) as the numbers a device
\* sends, or one Array, as the DataTypes constant or as the number
ParameterLists ==
    { << Param(PyInt(2), << 97 >>), Param(PyInt(1), << 98 >>) >>,
      << Param(DataTypes.Array, << 97 >>) >>,
      << Param(PyInt(15), << 97 >>) >> }

ModelCommands ==
    { CommandObject(CommandIntent(n), n, ps) : n \in CommandNames, ps \in ParameterLists }

Registrations == { Registration(cs) : cs \in SeqsOf(ModelCommands, 0, MaxCommands) }

\* the frames a device sends: a Register frame for every registration that can be
\* serialized, and a command frame for every declared intent
RegisterPackets ==
    { BinaryMessage(PACKET_SIGNATURE, 1, 0, Register, serialize(r).bytes) :
        r \in { x \in Registrations : serialize(x).err = "" } }

CommandPackets ==
    { BinaryMessage(PACKET_SIGNATURE, 1, 0, CommandIntent(n), << 205, 171, 255 >>) :
        n \in CommandNames }

\* the classes the layer above can hand to register_command_map
GeneratedClasses == { generate(c).class : c \in { x \in ModelCommands : generate(x).err = "" } }

InitFactoryOnly == InitBuffer /\ InitNoWire /\ InitNoFrame /\ InitFactory /\ InitNoCodec

\* BinaryProtocol.connectionMade
connectionMade ==
    LET r == connectionMade_call(transport) IN
    /\ Len(transport) < MaxConnections
    /\ transport' = r.transport
    /\ ret' = Outcome("connectionMade", r.err, FALSE, NoMsg)
    /\ UNCHANGED << packet_buffer, wireVars, frameVars, command_map, registration_request,
                    delivered, connections, codecVars >>

\* BinaryFactory.packet_received(packet), as dataReceived calls it with a packet
\* popped from the buffer; ret keeps the packet.  Nothing in packet_received
\* hands a packet to a layer above.
packet_received(packet) ==
    LET r == packet_received_call(Factory(command_map, registration_request), packet) IN
    /\ command_map' = r.factory.command_map
    /\ registration_request' = r.factory.registration_request
    /\ ret' = Outcome("packet_received", r.err, FALSE, packet)
    /\ UNCHANGED << packet_buffer, wireVars, frameVars, transport, delivered,
                    connections, codecVars >>

\* BinaryFactory.handle_registration_request(reg); the flag of ret tells whether
\* reg declared a command name that was mapped before the call
handle_registration_request(reg) ==
    LET r == handle_registration_request_call(Factory(command_map, registration_request), reg)
        commands == reg.fields.commands.items
        redeclared == \E i \in 1..Len(commands) :
                          in_command_map(command_map, commands[i].fields.name.v)
    IN
    /\ command_map' = r.factory.command_map
    /\ registration_request' = r.factory.registration_request
    /\ ret' = Outcome("handle_registration_request", r.err, redeclared, NoMsg)
    /\ UNCHANGED << packet_buffer, wireVars, frameVars, transport, delivered,
                    connections, codecVars >>

\* BinaryFactory.register_command_map(command_name, binary_class)
register_command_map(command_name, binary_class) ==
    LET r == register_command_map_call(Factory(command_map, registration_request),
                                       command_name, binary_class) IN
    /\ command_map' = r.factory.command_map
    /\ ret' = Outcome("register_command_map", r.err, FALSE, NoMsg)
    /\ UNCHANGED << packet_buffer, wireVars, frameVars, transport, registration_request,
                    delivered, connections, codecVars >>

NextFactory ==
    \/ connectionMade
    \/ \E packet \in RegisterPackets \cup CommandPackets : packet_received(packet)
    \/ \E reg \in Registrations : handle_registration_request(reg)
    \/ \E n \in CommandNames, c \in GeneratedClasses : register_command_map(n, c)

SpecFactory == InitFactoryOnly /\ [][NextFactory]_vars

\* C11: when the transport connects, connectionMade writes exactly one frame to
\* the transport, the RegistrationRequest: signature 0xC5C3, version 1, flags 0,
\* intent RequestRegistration = 0, empty payload.
C11_ConnectionMadeWritesRequest ==
    [][ret'.op = "connectionMade" =>
          /\ Len(transport') = Len(transport) + 1
          /\ from_binary(transport'[Len(transport')]) =
                [err |-> "", msg |-> BinaryMessage(PACKET_SIGNATURE, 1, 0, 0, <<>>)]]_vars


\* a registration that declares a parameter of type Array (15), as the constant
\* or as the number
DeclaresArray(reg) ==
    \E i \in 1..Len(reg.fields.commands.items) :
        \E j \in 1..Len(reg.fields.commands.items[i].fields.parameters.items) :
            reg.fields.commands.items[i].fields.parameters.items[j].fields.type.v = << 15 >>

\* a generated class with a field of type Array
HasArrayField(class) ==
    \E j \in 1..Len(class.binary_struct) : class.binary_struct[j].type.v = << 15 >>

\* packet is a Register frame whose payload is a DeviceRegistration without Array
\* parameters
IsRegistration(packet) ==
    /\ packet.intent = Register
    /\ deserialize(packet.data, DeviceRegistration).err = ""
    /\ ~DeclaresArray(deserialize(packet.data, DeviceRegistration).obj)

\* C12: when a frame with intent Register is received, it is decoded as a
\* DeviceRegistration, every command name it declares is a key of the command
\* map afterwards, and the registration deferred has fired with those commands
\* in the map.
C12_RegisterFramePopulatesRegistry ==
    [][(ret'.op = "packet_received" /\ IsRegistration(ret'.msg)) =>
          LET commands == deserialize(ret'.msg.data, DeviceRegistration).obj.fields.commands.items
          IN  /\ \A i \in 1..Len(commands) : commands[i].fields.name.v \in DOMAIN command_map'
              /\ registration_request'.called = 1]_vars

\* C13: the registration deferred is resolved exactly once: whenever a Register
\* frame has been received, whatever was received before, the deferred has fired
\* once.
C13_RegistrationFiredExactlyOnce ==
    (ret.op = "packet_received" /\ IsRegistration(ret.msg)) => registration_request.called = 1

\* C14 as stated: once a command name is mapped, no operation of the factory
\* replaces or removes its mapping.
C14_MappingNeverReplaced ==
    [][\A n \in DOMAIN command_map :
          n \in DOMAIN command_map' /\ command_map'[n] = command_map[n]]_vars

\* C14 amended: no operation other than register_command_map replaces or removes
\* a mapping; a registration that declares a mapped name leaves its entry as it is.
C14_MappingReplacedOnlyByRegisterCommandMap ==
    [][ret'.op # "register_command_map" =>
          \A n \in DOMAIN command_map :
              n \in DOMAIN command_map' /\ command_map'[n] = command_map[n]]_vars

\* C14 witness: a registration after the first one declared a name that was
\* mapped already, and both names are mapped
C14_Witness ==
    /\ ret.op = "handle_registration_request"
    /\ ret.flag
    /\ ret.err = "AlreadyCalledError"
    /\ DOMAIN command_map = CommandNames

\* C15: after registration has completed, a received frame whose intent was
\* declared by a registered command is handed to the layer above with the name
\* of the command and the intent.
C15_CommandFrameDelivered ==
    [][(/\ ret'.op = "packet_received"
        /\ registration_request.called = 1
        /\ \E n \in DOMAIN command_map : CommandIntent(n) = ret'.msg.intent) =>
          /\ Len(delivered') = Len(delivered) + 1
          /\ delivered'[Len(delivered')].intent = ret'.msg.intent
          /\ CommandIntent(delivered'[Len(delivered')].name) = ret'.msg.intent]_vars

\* C19: registering a command that declares a parameter of type Array fails: no
\* class is generated for such a command, and a registration that fails with the
\* unsupported-schema error does not fire the registration deferred.
C19_ArrayParameterRejected ==
    [][ret'.op = "handle_registration_request" =>
          /\ \A n \in DOMAIN command_map' :
                 n \notin DOMAIN command_map => ~HasArrayField(command_map'[n])
          /\ ret'.err = "NotImplementedError" => registration_request' = registration_request]_vars

(***************************************************************************)
(* SpecShared: two protocols built by one BinaryFactory, each connected to  *)
(* its own device.  BinaryProtocol keeps no buffer of its own: dataReceived *)
(* appends to factory.packet_buffer, and connectionLost leaves it alone.    *)
(***************************************************************************)
ConnMessages ==
    { BinaryMessage(PACKET_SIGNATURE, 1, 0, 4, p) : p \in SeqsOf({0}, 0, MaxPayload) }

\* a protocol: the bytes its device sends, those the transport has not read yet,
\* whether it is connected, and the packets its dataReceived handed over
Connection(sent) == [sent |-> sent, wire |-> sent, connected |-> TRUE, received |-> <<>>]

\* the first device sends a frame up to some byte and the second device the bytes
\* of a frame from some byte on: a whole frame, or the rest of one
FramePrefixes ==
    UNION { { SubSeq(to_binary(m), 1, k) : k \in 0..Len(to_binary(m)) } : m \in ConnMessages }

FrameSuffixes ==
    UNION { { SubSeq(to_binary(m), j, Len(to_binary(m))) : j \in 1..Len(to_binary(m)) } :
              m \in ConnMessages }

ConnectionInputs ==
    { << Connection(a), Connection(b) >> : a \in FramePrefixes, b \in FrameSuffixes }

\* the factory after buildProtocol was called for each of the two connections
InitShared ==
    /\ InitBuffer
    /\ InitNoWire
    /\ InitNoFrame
    /\ InitNoCodec
    /\ transport = <<>>
    /\ command_map = << >>
    /\ registration_request = Deferred
    /\ delivered = <<>>
    /\ connections \in ConnectionInputs

\* BinaryProtocol.dataReceived on protocol c with the bytes its device sent, in
\* one chunk (the split of a stream into chunks is the subject of SpecWire)
dataReceived_on(c) ==
    LET conn == connections[c]
        n == Len(conn.wire)
        r == dataReceived_call(packet_buffer, conn.received,
                               Factory(command_map, registration_request),
                               SubSeq(conn.wire, 1, n))
    IN
    /\ conn.connected
    /\ n > 0
    /\ packet_buffer' = r.data
    /\ connections' = [connections EXCEPT ![c].wire = SubSeq(conn.wire, n + 1, Len(conn.wire)),
                                          ![c].received = r.received]
    /\ command_map' = r.factory.command_map
    /\ registration_request' = r.factory.registration_request
    /\ ret' = Outcome("dataReceived", r.err, FALSE, NoMsg)
    /\ UNCHANGED << wireVars, frameVars, transport, delivered, codecVars >>

\* BinaryProtocol.connectionLost on protocol c: Protocol.connectionLost, which
\* touches neither the factory nor its packet_buffer
connectionLost(c) ==
    /\ connections[c].connected
    /\ connections' = [connections EXCEPT ![c].connected = FALSE]
    /\ ret' = Outcome("connectionLost", "", FALSE, NoMsg)
    /\ UNCHANGED << packet_buffer, wireVars, frameVars, transport, command_map,
                    registration_request, delivered, codecVars >>

NextShared ==
    \/ \E c \in 1..Len(connections) : dataReceived_on(c)
    \/ \E c \in 1..Len(connections) : connectionLost(c)

SpecShared == InitShared /\ [][NextShared]_vars

\* a occurs in b as a run of adjacent elements
IsInfix(a, b) ==
    \E i \in 0..(Len(b) - Len(a)) : SubSeq(b, i + 1, i + Len(a)) = a

\* C17: each connection has its own buffer: every frame delivered on a connection
\* is made of bytes the device of that connection sent, never of bytes another
\* connection left in a buffer.
C17_BufferPerConnection ==
    \A c \in 1..Len(connections) :
        \A k \in 1..Len(connections[c].received) :
            IsInfix(to_binary(connections[c].received[k]), connections[c].sent)

(***************************************************************************)
(* The size of the buffer, checked under Spec.                             *)
(***************************************************************************)
\* a ceiling on the buffered bytes; append has no such test, so the claim is put
\* to the largest ceiling that the appends of Spec can still pass
Ceiling == MaxBuf - 1

\* C18: the buffer never holds more bytes than a fixed ceiling: an append that
\* would pass the ceiling clears the buffer and fails with BufferOverflow.
C18_BufferWithinCeiling == Len(packet_buffer) <= Ceiling

(***************************************************************************)
(* SpecCodec: BinaryFormatter.serialize on an object, then                 *)
(* BinaryFormatter.deserialize of the bytes into the object's class.       *)
(***************************************************************************)
\* _SubObject(val)
SubObjectOf(val) == Object(SubObject, [sword_prop |-> PyInt(val)])

\* Equipment(name, code, typename)
EquipmentOf(name, code, typename) ==
    Object(Equipment, [name |-> PyStr(name), code |-> PyStr(code), typename |-> PyStr(typename)])

\* the bytes of uuid.UUID('fa8a9d6e-6555-11e2-89b8-e0cb4eb92129')
TestGuid == << 250, 138, 157, 110, 101, 85, 17, 226, 137, 184, 224, 203, 78, 185, 33, 41 >>

\* the strings of the model: '', 'ab' and the UTF-8 bytes of one accented letter
TestStrings == { <<>>, << 97, 98 >>, << 195, 169 >> }

\* _TestObject as _create_default_test_object fills it, over several values of
\* each kind of field; the second Guid is given as a UUID or as its 16 bytes
TestObjects ==
    { Object(TestObject,
             [byte_prop |-> PyInt(b), word_prop |-> PyInt(43981),
              dword_prop |-> PyInt(305419896), bool_prop |-> PyBool(t),
              false_prop |-> PyBool(FALSE), str_prop |-> PyStr(s),
              arr_prop |-> PyList(a), guid_prop |-> PyUUID(TestGuid),
              aguid_prop |-> ag]) :
        b \in {0, 171}, t \in BOOLEAN, s \in TestStrings,
        a \in SeqsOf({SubObjectOf(0 - 1024), SubObjectOf(5)}, 0, MaxElements),
        ag \in {PyUUID(TestGuid), PyStr(TestGuid)} }

\* registrations that declare commands, and one that holds an Equipment
RegistrationObjects ==
    Registrations
    \cup { Object(DeviceRegistration,
                  [DeviceRegistration.fields EXCEPT
                     !.equipment = PyList(<< EquipmentOf(<< 101 >>, << 99 >>, << 116 >>) >>)]) }

CodecObjects == TestObjects \cup RegistrationObjects

\* the class of an object handed to serialize
ClassOf(o) ==
    IF o.cls = "TestObject" THEN TestObject
    ELSE IF o.cls = "DeviceRegistration" THEN DeviceRegistration
    ELSE ClassNamed(o.cls)

InitCodec ==
    /\ InitBuffer
    /\ InitNoWire
    /\ InitNoFrame
    /\ InitFactory
    /\ obj \in CodecObjects
    /\ binstr = <<>>
    /\ res = NotDeserialized

\* binstr = BinaryFormatter.serialize(obj)
call_serialize ==
    LET s == serialize(obj) IN
    /\ ret.op = "init"
    /\ binstr' = s.bytes
    /\ ret' = Outcome("serialize", s.err, FALSE, NoMsg)
    /\ UNCHANGED << packet_buffer, wireVars, frameVars, factoryVars, obj, res >>

\* res = BinaryFormatter.deserialize(binstr, type(obj)) on the bytes serialize returned
call_deserialize ==
    LET r == deserialize(binstr, ClassOf(obj)) IN
    /\ ret.op = "serialize"
    /\ ret.err = ""
    /\ res' = r
    /\ ret' = Outcome("deserialize", r.err, FALSE, NoMsg)
    /\ UNCHANGED << packet_buffer, wireVars, frameVars, factoryVars, obj, binstr >>

NextCodec ==
    \/ call_serialize
    \/ call_deserialize

SpecCodec == InitCodec /\ [][NextCodec]_vars

\* a and b are equal field by field: objects of one class whose binary properties
\* are equal, an array property element by element, any other by Python's ==
RECURSIVE FieldsEqual(_, _)
FieldsEqual(a, b) ==
    /\ a.cls = b.cls
    /\ \A i \in 1..Len(a.binary_struct) :
          LET prop == a.binary_struct[i]
              x == a.fields[prop.name]
              y == b.fields[prop.name]
          IN  IF prop.array
              THEN /\ y.py \in {"list", "tuple"}
                   /\ Len(x.items) = Len(y.items)
                   /\ \A k \in 1..Len(x.items) : FieldsEqual(x.items[k], y.items[k])
              ELSE PyEq(x, y)

\* C20: codec round trip: for every value that serialize accepts, deserialize of
\* the bytes returns without error a value equal to it field by field, having
\* read exactly len(serialize(v)) bytes.
C20_CodecRoundTrip ==
    ret.op = "deserialize" =>
        /\ res.err = ""
        /\ FieldsEqual(obj, res.obj)
        /\ res.offset = Len(binstr)

(***************************************************************************)
(* SpecTruncated: BinaryFormatter.deserialize on the bytes of an object    *)
(* that end early: a prefix of what serialize returned for it.             *)
(***************************************************************************)
\* the objects whose bytes are cut: the test objects, the registrations, and the
\* parameters and commands they hold
DecodedObjects ==
    { o \in CodecObjects
              \cup ModelCommands
              \cup { Param(PyInt(t), n) : t \in {1, 2}, n \in TestStrings }
              \cup { SubObjectOf(5) } :
        serialize(o).err = "" }

InitTruncated ==
    /\ InitBuffer
    /\ InitNoWire
    /\ InitNoFrame
    /\ InitFactory
    /\ obj \in DecodedObjects
    /\ binstr \in { SubSeq(serialize(obj).bytes, 1, k) : k \in 0..(Len(serialize(obj).bytes) - 1) }
    /\ res = NotDeserialized

\* res = BinaryFormatter.deserialize(binstr, type(obj)) on the shortened bytes
deserialize_truncated ==
    LET returned(r) ==
            /\ res' = r
            /\ ret' = Outcome("deserialize", r.err, FALSE, NoMsg)
    IN
    /\ ret.op = "init"
    /\ returned(deserialize(binstr, ClassOf(obj)))
    /\ UNCHANGED << packet_buffer, wireVars, frameVars, factoryVars, obj, binstr >>

NextTruncated == deserialize_truncated

SpecTruncated == InitTruncated /\ [][NextTruncated]_vars

\* C21: deserialize fails whenever the input ends before the schema is fully
\* decoded, whatever the field the input ends in: it never returns a value made
\* from a String, Binary or Array cut short.
C21_TruncatedInputFails ==
    ret.op = "deserialize" => res.err # ""

(***************************************************************************)
(* SpecBytes: BinaryMessage.from_binary on bytes that may be no frame: a    *)
(* frame cut short or followed by more bytes, with or without one byte     *)
(* changed, and the byte strings of TestBinaryMessage.                     *)
(***************************************************************************)
\* the byte strings of test_crc_error, test_incomplete_packet,
\* test_invalid_packet_length and test_raise_invalid_signature
CrcErrorBytes == << 197, 195, 2, 3, 3, 0, 4, 0, 49, 50, 51, 186 >>

TestVectors ==
    { CrcErrorBytes,
      << 0, 1, 2, 3 >>,
      << 197, 195, 2, 3, 0, 3, 4, 0, 49, 50, 51, 213 >>,
      << 186, 209, 2, 3, 3, 0, 4, 0, 49, 50, 51, 213 >> }

\* a frame, its prefixes, and the frame followed by one more byte
Cuts(b) ==
    { SubSeq(b, 1, k) : k \in 1..Len(b) } \cup { b \o << x >> : x \in {0, PACKET_SIGNATURE_HI} }

\* b, and b with one byte changed
Changes(b) ==
    { b } \cup { [b EXCEPT ![i] = x] : i \in 1..Len(b), x \in {0, 1, PACKET_SIGNATURE_LO, 255} }

DecodeInputs ==
    TestVectors
    \cup UNION { UNION { Changes(c) : c \in Cuts(to_binary(m)) } : m \in Messages }

InitBytes ==
    /\ InitBuffer
    /\ InitNoWire
    /\ InitFactory
    /\ InitNoCodec
    /\ message = NoMsg
    /\ binary \in DecodeInputs
    /\ decoded = NotDecoded

NextBytes == decode

SpecBytes == InitBytes /\ [][NextBytes]_vars

\* the payload length the header of b declares
DeclaredLength(b) == b[5] + 256 * b[6]

\* C22: from_binary returns a frame only if the input has at least 9 bytes, starts
\* with 0xC5 0xC3, has at least 9 + payload_length bytes, and its first
\* 9 + payload_length bytes sum to 0xFF modulo 256; otherwise it fails with the
\* first that applies of IncompletePacketError, InvalidSignatureError,
\* InvalidPacketLengthError, InvalidCRCError.
C22_FromBinaryErrors ==
    decoded # NotDecoded =>
        decoded.err =
            IF Len(binary) < 9 THEN "IncompletePacketError"
            ELSE IF binary[1] # 197 \/ binary[2] # 195 THEN "InvalidSignatureError"
            ELSE IF Len(binary) < 9 + DeclaredLength(binary) THEN "InvalidPacketLengthError"
            ELSE IF Sum(SubSeq(binary, 1, 9 + DeclaredLength(binary))) % 256 # 255
            THEN "InvalidCRCError"
            ELSE ""

\* C22 witness: the bytes of test_crc_error were refused with InvalidCRCError
C22_Witness ==
    /\ binary = CrcErrorBytes
    /\ decoded.err = "InvalidCRCError"

(***************************************************************************)
(* pop_packet on a buffer that has a packet, checked under Spec.           *)
(***************************************************************************)
\* C23: whenever has_packet() is true, pop_packet never fails for flow reasons: it
\* raises neither IncompletePacketError nor InvalidPacketLengthError, for every
\* buffer content reachable by append, pop_packet and clear.
C23_PopNeverFailsForFlow ==
    [][(ret'.op = "pop_packet" /\ has_packet(packet_buffer)) =>
        ret'.err \notin {"IncompletePacketError", "InvalidPacketLengthError"}
      ]_vars

\* C23 witness: pop_packet on a buffer that has a packet raised for the integrity
\* of the frame
C23_Witness ==
    /\ ret.op = "pop_packet"
    /\ has_packet(packet_buffer)
    /\ ret.err = "InvalidCRCError"

(***************************************************************************)
(* Frames that are no registration, checked under SpecFactory.             *)
(***************************************************************************)
\* C24: before registration has completed, a frame whose intent is not Register
\* leaves the command map and the registration-complete signal unchanged and
\* raises no error: it is discarded silently.
C24_OtherFrameDiscarded ==
    [][(/\ ret'.op = "packet_received"
        /\ ret'.msg.intent # Register
        /\ registration_request.called = 0) =>
        /\ command_map' = command_map
        /\ registration_request' = registration_request
        /\ ret'.err = ""
      ]_vars

\* C24 witness: a command frame was received while a command was mapped and the
\* signal had not fired
C24_Witness ==
    /\ ret.op = "packet_received"
    /\ ret.msg \in CommandPackets
    /\ registration_request.called = 0
    /\ DOMAIN command_map # {}

(***************************************************************************)
(* What dataReceived leaves in the buffer, checked under SpecWire.          *)
(***************************************************************************)
\* C25: whenever dataReceived returns normally, the buffer holds no complete frame
\* (has_packet() is false): every complete frame present after the append has been
\* popped and passed to packet_received before dataReceived returns.
C25_NoFrameLeftOnReturn ==
    (ret.op = "dataReceived" /\ ret.err = "") => ~has_packet(packet_buffer)

\* C25 witness: dataReceived returned normally after a frame was handed over, with
\* the start of the next frame left in the buffer
C25_Witness ==
    /\ ret.op = "dataReceived"
    /\ ret.err = ""
    /\ Len(received) = 1
    /\ Len(packet_buffer) > 2

(***************************************************************************)
(* What resynchronization deletes, checked under SpecJunk.                 *)
(***************************************************************************)
\* where the first adjacent pair 0xC5 0xC3 of d begins
FirstSignaturePair(d) ==
    CHOOSE i \in 1..(Len(d) - 1) :
        /\ d[i] = 197 /\ d[i + 1] = 195
        /\ \A j \in 1..(i - 1) : ~(d[j] = 197 /\ d[j + 1] = 195)

\* kept is what is left of all after a deletion from the front that stops before
\* the first signature pair of all
OnlyFrontDeleted(all, kept) ==
    /\ IsSuffixOf(kept, all)
    /\ HasSignaturePair(all) => Len(all) - Len(kept) <= FirstSignaturePair(all) - 1

\* C26: resynchronization only deletes from the front: after append(chunk) the
\* buffer is a suffix of the previous buffer followed by chunk, and no byte at or
\* after the first adjacent 0xC5 0xC3 of that sequence is discarded.  The chunk is
\* what the step took from the wire.
C26_OnlyFrontDeleted ==
    [][ret'.op = "append" =>
        OnlyFrontDeleted(packet_buffer \o SubSeq(wire, 1, Len(wire) - Len(wire')),
                         packet_buffer')
      ]_vars

\* C26 witness: junk that began with a false start 0xC5 was deleted and the frame
\* behind it is in the buffer whole
C26_Witness ==
    /\ wire = <<>>
    /\ Len(input[1].bytes) >= 2
    /\ input[1].bytes[1] = 197
    /\ packet_buffer = input[2].bytes

(***************************************************************************)
(* A registration that fails part way, checked under SpecFactory.          *)
(***************************************************************************)
\* C27: registration is all-or-nothing: if schema synthesis fails for any command
\* of a registration record, the command map is left exactly as it was before the
\* record was handled: commands declared before the failing one in the same
\* record are not registered.
C27_RegistrationAllOrNothing ==
    [][(/\ ret'.op \in {"handle_registration_request", "packet_received"}
        /\ ret'.err = "NotImplementedError") =>
        command_map' = command_map
      ]_vars

(***************************************************************************)
(* SpecSteps: dataReceived taken step by step: the append, each call of     *)
(* _skip_to_next_packet, each test of the while loop with the pop_packet    *)
(* it leads to, and each packet_received.  ret.op is where the call stands; *)
(* inside pop_packet, ret.flag is set and ret.msg is the packet it will     *)
(* return.  Once dataReceived is called the interpreter runs it on, so the  *)
(* steps inside the call are fair; the arrival of the next chunk is not.    *)
(***************************************************************************)
InitSteps == InitWire

\* no call of dataReceived is running
Idle == ret.op \in {"init", "dataReceived"}

\* dataReceived(data) up to self._data.extend(value) in append
step_append(n) ==
    /\ Idle
    /\ packet_buffer' = packet_buffer \o SubSeq(wire, 1, n)
    /\ wire' = SubSeq(wire, n + 1, Len(wire))
    /\ ret' = Outcome("_skip_to_next_packet", "", FALSE, NoMsg)
    /\ UNCHANGED << input, received, frameVars, factoryVars, codecVars >>

\* one call of _skip_to_next_packet, made by append, by pop_packet or by itself
step_skip ==
    LET left(r) ==
            /\ packet_buffer' = r.data
            /\ ret' = IF r.again THEN ret
                      ELSE IF ret.flag THEN Outcome("packet_received", "", TRUE, ret.msg)
                      ELSE Outcome("while", "", FALSE, NoMsg)
    IN
    /\ ret.op = "_skip_to_next_packet"
    /\ left(skip_call(packet_buffer))
    /\ UNCHANGED << wireVars, frameVars, factoryVars, codecVars >>

\* the test of the while loop and, when it is true, pop_packet up to its del
step_while ==
    LET popped(r) ==
            IF r.err # ""
            THEN /\ ret' = Outcome("dataReceived", r.err, FALSE, NoMsg)
                 /\ UNCHANGED packet_buffer
            ELSE /\ ret' = Outcome("_skip_to_next_packet", "", TRUE, r.msg)
                 /\ packet_buffer' =
                        DelFront(packet_buffer,
                                 PACKET_OFFSET_DATA + 1
                                 + (ShiftHigh(At(packet_buffer, PACKET_OFFSET_LEN_MSB))
                                    + LowByte(At(packet_buffer, PACKET_OFFSET_LEN_LSB))))
    IN
    /\ ret.op = "while"
    /\ IF ~has_packet(packet_buffer)
       THEN /\ ret' = Outcome("dataReceived", "", FALSE, NoMsg)
            /\ UNCHANGED packet_buffer
       ELSE popped(from_binary(packet_buffer))
    /\ UNCHANGED << wireVars, frameVars, factoryVars, codecVars >>

\* self.factory.packet_received(packet) with the packet pop_packet returned
step_packet_received ==
    LET returned(r) ==
            /\ command_map' = r.factory.command_map
            /\ registration_request' = r.factory.registration_request
            /\ ret' = IF r.err # ""
                      THEN Outcome("dataReceived", r.err, FALSE, NoMsg)
                      ELSE Outcome("while", "", FALSE, NoMsg)
    IN
    /\ ret.op = "packet_received"
    /\ received' = Append(received, ret.msg)
    /\ returned(packet_received_call(Factory(command_map, registration_request), ret.msg))
    /\ UNCHANGED << packet_buffer, input, wire, frameVars, transport, delivered,
                    connections, codecVars >>

\* the steps inside a call of dataReceived
RunSteps ==
    \/ step_skip
    \/ step_while
    \/ step_packet_received

NextSteps ==
    \/ \E n \in 1..Len(wire) : step_append(n)
    \/ RunSteps

SpecSteps == InitSteps /\ [][NextSteps]_vars /\ WF_vars(RunSteps)

\* C28: resynchronization and the receive loop terminate for every input: each call
\* _skip_to_next_packet makes of itself is on a strictly shorter buffer, each turn
\* of the dataReceived loop that pops a frame removes at least 9 bytes, and every
\* call of dataReceived comes to its end.
C28_Terminates ==
    /\ [][/\ (ret.op = "_skip_to_next_packet" /\ ret'.op = "_skip_to_next_packet")
               => Len(packet_buffer') < Len(packet_buffer)
          /\ (ret.op = "while" /\ ret'.op = "_skip_to_next_packet")
               => Len(packet_buffer') <= Len(packet_buffer) - 9
         ]_vars
    /\ (~Idle) ~> Idle

\* C28 witness: a call of dataReceived came to its end after _skip_to_next_packet
\* had called itself on the junk 0xC5 0x00 and the loop had popped the frame
\* behind it
C28_Witness ==
    /\ ret.op = "dataReceived"
    /\ ret.err = ""
    /\ Len(input) = 2
    /\ input[1].bytes = << PACKET_SIGNATURE_HI, 0 >>
    /\ input[2].kind = "frame"
    /\ received = << input[2].msg >>
    /\ packet_buffer = <<>>

====
